---------------------------- MODULE Spec2Model ----------------------------
(***************************************************************************)
(* Circuit breaker of the overcurrent package.                             *)
(*                                                                         *)
(*   circuitBreaker   (src/unnamed/part_000)  the mutex-protected breaker  *)
(*                    with StateHardOpen; specification Spec.              *)
(*   CircuitBreaker   (src/breaker.go)        the config-struct breaker;   *)
(*                    specification SpecV1.                                *)
(*                                                                         *)
(* Each exported method takes the breaker's mutex for its whole body, so   *)
(* each is one action.  Call is a sequence of steps (ShouldTry, the        *)
(* protected function running outside the lock, callWithTimeout's select,  *)
(* MarkResult) that interleave with other callers.                         *)
(***************************************************************************)
EXTENDS Integers, FiniteSets, Sequences, TLC

(* ---------------------------- bounds ----------------------------------- *)
NumCallers == 1     \* goroutines running Call concurrently
MaxTime == 3        \* the clock runs 0..MaxTime
Threshold == 2      \* N of NewConsecutiveFailureTripCondition(N)
MaxAttempts == 1    \* the backoff interval stops growing after this many draws
MaxDetached == 1    \* protected functions still running after a timeout

(* ---------------------------- constants -------------------------------- *)
NoTime == -1                \* a nil *time.Time / *time.Duration
BackoffBase == 1            \* first interval of the backoff generator, in clock ticks
TimeoutTicks == 1           \* a nonzero invocationTimeout, in clock ticks

Callers == 1..NumCallers     \* caller 0 in lastOp: a method called directly
\* the goroutines of the lock-level view: the callers and one more
Goroutines == 1..(NumCallers + 1)

CircuitStates == {"Open", "Closed", "HalfClosed", "HardOpen"}

ErrCircuitOpen == "ErrCircuitOpen"
ErrInvocationTimeout == "ErrInvocationTimeout"
NilErr == "nil"
\* what a protected function may return
FuncResults == {NilErr, "e400", "e500"}
\* what a caller may hand to MarkResult directly
MarkInputs == FuncResults \cup {ErrInvocationTimeout}

\* rand.Float64() lies in [0,1); probabilities are in percent
RandDraws == {0, 99}

\* the configurations explored, <<halfClosedRetryProbability, invocationTimeout,
\* failureInterpreter>>: the default one (50, nonzero, "any") and five more that
\* pair every value of each option with every value of the others
Configs ==
    { <<50, TimeoutTicks, "any">>, <<50, 0, "server">>,
      <<0, 0, "any">>, <<0, TimeoutTicks, "server">>,
      <<100, 0, "any">>, <<100, TimeoutTicks, "server">> }

VARIABLES
    state,              \* cb.state
    lastFailureTime,    \* cb.lastFailureTime (NoTime = nil)
    resetTimeout,       \* cb.resetTimeout (NoTime = nil)
    attempts,           \* cb.resetBackoff: how many intervals were drawn since its Reset
    count,              \* cb.tripCondition: consecutive failures
    now,                \* cb.clock.Now()
    prob,               \* cb.halfClosedRetryProbability, in percent
    invocationTimeout,  \* cb.invocationTimeout (0 or TimeoutTicks)
    interp,             \* cb.failureInterpreter: "any" or "server"
    pc,                 \* per caller: position inside Call
    err,                \* per caller: what callWithTimeout returned
    start,              \* per caller: clock value when callWithTimeout started
    detached,           \* functions whose timer won and that still run
    run,                \* history: failing MarkResults since the last success or Reset
    lastOp,             \* history: the operation that produced this state
    v1,                 \* breaker.go: the CircuitBreaker struct and its strategies
    v1pc,               \* breaker.go: position of the one caller inside Call
    v1err,              \* breaker.go: what callWithTimeout returned
    v1start,            \* breaker.go: time.Now() when callWithTimeout started
    v1detached,         \* breaker.go: goroutines still running f after the timer won
    v1blocked,          \* breaker.go: some goroutine is stuck in "c <- f()"
    probe,              \* per caller, history: the call was admitted in HalfClosed
    mutex,              \* cb.mutex: the goroutine holding it, 0 when free
    tpc,                \* per goroutine: program point in the method on top of frames
    frames              \* per goroutine: the methods it is inside, outermost first

bvars == <<state, lastFailureTime, resetTimeout, attempts, count>>
cfgvars == <<prob, invocationTimeout, interp>>
callvars == <<pc, err, start, detached, probe>>
v1vars == <<v1, v1pc, v1err, v1start, v1detached, v1blocked>>
\* everything breaker.go's CircuitBreaker leaves alone
nvars == <<state, lastFailureTime, resetTimeout, attempts, count, now,
           prob, invocationTimeout, interp, pc, err, start, detached, probe, run>>
\* the lock-level view of circuitBreaker
lvars == <<mutex, tpc, frames>>
vars == <<state, lastFailureTime, resetTimeout, attempts, count, now,
          prob, invocationTimeout, interp, pc, err, start, detached, run, lastOp,
          v1, v1pc, v1err, v1start, v1detached, v1blocked,
          probe, mutex, tpc, frames>>

Op(o, c, b, e, fx) == [op |-> o, c |-> c, b |-> b, e |-> e, fx |-> fx]

(* ----------------------- strategy objects ------------------------------ *)
\* backoff.Backoff: NextInterval() after a draws, and the generator's advance
NextInterval(a) == BackoffBase * (2 ^ a)
Advance(a) == IF a < MaxAttempts THEN a + 1 ELSE a

\* TripCondition.ShouldTrip() of the consecutive-failure condition
ShouldTrip(n) == n >= Threshold

\* FailureInterpreter.ShouldTrip(err)
InterpShouldTrip(i, e) ==
    IF i = "any" THEN e # NilErr ELSE e = "e500"

(* ------------------------- the breaker object -------------------------- *)
\* the mutable fields of circuitBreaker and of its two stateful strategies
cb == [state |-> state, lastFailureTime |-> lastFailureTime,
       resetTimeout |-> resetTimeout, attempts |-> attempts, count |-> count]

\* the result of a method: the breaker after it, what it returned, and the
\* strategy methods it called
Res(b, ret, fx) == [cb |-> b, ret |-> ret, fx |-> fx]

\* setState: the collector is a pure sink, only the field changes
setState(b, s) == [b EXCEPT !.state = s]

Trip(b) == Res(setState(b, "HardOpen"), TRUE, {})

\* Reset that does not tell the trip condition of a success
ResetNoSuccess(b) ==
    Res([setState(b, "Closed") EXCEPT !.resetTimeout = NoTime, !.attempts = 0],
        TRUE, {"Backoff.Reset"})

\* Reset leaving the backoff generator where it was
ResetKeepsBackoff(b) ==
    Res([setState(b, "Closed") EXCEPT !.resetTimeout = NoTime,
                                      !.count = 0],
        TRUE, {"Success"})

Reset(b) ==
    Res([setState(b, "Closed") EXCEPT !.resetTimeout = NoTime,
                                      !.attempts = 0,
                                      !.count = 0],
        TRUE, {"Backoff.Reset", "Success"})

\* resetTimeoutElapsed without the comparison against the clock
resetTimeoutElapsedNoClock(b, t) ==
    IF b.state # "Open" THEN FALSE
    ELSE IF b.lastFailureTime = NoTime \/ b.resetTimeout = NoTime THEN FALSE
    ELSE TRUE

resetTimeoutElapsed(b, t) ==
    IF b.state # "Open" THEN FALSE
    ELSE IF b.lastFailureTime = NoTime \/ b.resetTimeout = NoTime THEN FALSE
    ELSE t - b.lastFailureTime >= b.resetTimeout

\* ShouldTry drawing from the generator without resetting it first
ShouldTryNoBackoffReset(b, t, p, r) ==
    IF b.state = "HardOpen" THEN Res(b, FALSE, {})
    ELSE IF ~ShouldTrip(b.count) THEN Res(setState(b, "Closed"), TRUE, {"ShouldTrip"})
    ELSE
      LET b2 == IF b.state # "Open"
                THEN [b EXCEPT !.resetTimeout = NextInterval(b.attempts),
                               !.attempts = Advance(b.attempts)]
                ELSE b
          fx == {"ShouldTrip"}
                \cup (IF b.state # "Open" THEN {"NextInterval"} ELSE {})
      IN IF resetTimeoutElapsed(b2, t)
         THEN Res(setState(b2, "HalfClosed"), r < p, fx)
         ELSE Res(setState(b2, "Open"), FALSE, fx)

\* ShouldTry resetting the generator whenever it draws from it
ShouldTryAlwaysResets(b, t, p, r) ==
    IF b.state = "HardOpen" THEN Res(b, FALSE, {})
    ELSE IF ~ShouldTrip(b.count) THEN Res(setState(b, "Closed"), TRUE, {"ShouldTrip"})
    ELSE
      LET b1 == IF b.state # "Open" THEN [b EXCEPT !.attempts = 0] ELSE b
          b2 == IF b1.state # "Open"
                THEN [b1 EXCEPT !.resetTimeout = NextInterval(b1.attempts),
                                !.attempts = Advance(b1.attempts)]
                ELSE b1
          fx == {"ShouldTrip"}
                \cup (IF b.state # "Open" THEN {"Backoff.Reset", "NextInterval"} ELSE {})
      IN IF resetTimeoutElapsed(b2, t)
         THEN Res(setState(b2, "HalfClosed"), r < p, fx)
         ELSE Res(setState(b2, "Open"), FALSE, fx)

\* ShouldTry going half-open without ever letting a probe through
ShouldTryNeverProbes(b, t, p, r) ==
    IF b.state = "HardOpen" THEN Res(b, FALSE, {})
    ELSE IF ~ShouldTrip(b.count) THEN Res(setState(b, "Closed"), TRUE, {"ShouldTrip"})
    ELSE
      LET b1 == IF b.state = "Closed" THEN [b EXCEPT !.attempts = 0] ELSE b
          b2 == IF b1.state # "Open"
                THEN [b1 EXCEPT !.resetTimeout = NextInterval(b1.attempts),
                                !.attempts = Advance(b1.attempts)]
                ELSE b1
          fx == {"ShouldTrip"}
                \cup (IF b.state = "Closed" THEN {"Backoff.Reset"} ELSE {})
                \cup (IF b1.state # "Open" THEN {"NextInterval"} ELSE {})
      IN IF resetTimeoutElapsed(b2, t)
         THEN Res(setState(b2, "HalfClosed"), FALSE, fx)
         ELSE Res(setState(b2, "Open"), FALSE, fx)

\* ShouldTry at clock value t, with retry probability p and random draw r
ShouldTry(b, t, p, r) ==
    IF b.state = "HardOpen" THEN Res(b, FALSE, {})
    ELSE IF ~ShouldTrip(b.count) THEN Res(setState(b, "Closed"), TRUE, {"ShouldTrip"})
    ELSE
      LET b1 == IF b.state = "Closed" THEN [b EXCEPT !.attempts = 0] ELSE b
          b2 == IF b1.state # "Open"
                THEN [b1 EXCEPT !.resetTimeout = NextInterval(b1.attempts),
                                !.attempts = Advance(b1.attempts)]
                ELSE b1
          fx == {"ShouldTrip"}
                \cup (IF b.state = "Closed" THEN {"Backoff.Reset"} ELSE {})
                \cup (IF b1.state # "Open" THEN {"NextInterval"} ELSE {})
      IN IF resetTimeoutElapsed(b2, t)
         THEN Res(setState(b2, "HalfClosed"), r < p, fx)
         ELSE Res(setState(b2, "Open"), FALSE, fx)

\* the condition without the interpreter: every non-nil error is a failure
isFailureIgnoresInterp(i, e) == e # NilErr

\* the condition without the timeout sentinel's own clause
isFailureNoTimeout(i, e) == e # NilErr /\ InterpShouldTrip(i, e)

\* the condition of MarkResult's first branch
isFailure(i, e) ==
    e # NilErr /\ (e = ErrInvocationTimeout \/ InterpShouldTrip(i, e))

\* the failure interpreter is consulted unless && / || short-circuit first
consultsInterp(e) == e # NilErr /\ e # ErrInvocationTimeout

\* MarkResult forgetting to stamp the failure time
MarkResultNoStamp(b, t, i, e) ==
    LET fi == IF consultsInterp(e) THEN {"Interp"} ELSE {}
    IN IF isFailure(i, e)
       THEN Res([b EXCEPT !.count = b.count + 1], FALSE, fi \cup {"Failure"})
       ELSE LET r == Reset(b) IN Res(r.cb, TRUE, fi \cup r.fx)

MarkResult(b, t, i, e) ==
    LET fi == IF consultsInterp(e) THEN {"Interp"} ELSE {}
    IN IF isFailure(i, e)
       THEN Res([b EXCEPT !.lastFailureTime = t, !.count = b.count + 1],
                FALSE, fi \cup {"Failure"})
       ELSE LET r == Reset(b) IN Res(r.cb, TRUE, fi \cup r.fx)

(* --------------------- breaker.go: CircuitBreaker ---------------------- *)
NewCircuitBreaker ==
    [hardTrip |-> FALSE, lastState |-> "Closed", lastFailureTime |-> NoTime,
     resetTimeout |-> NoTime, attempts |-> 0, count |-> 0]

recordSuccess(v) ==
    [v EXCEPT !.hardTrip = FALSE, !.lastFailureTime = NoTime,
              !.resetTimeout = NoTime, !.attempts = 0, !.count = 0]

recordFailure(v, t) ==
    [v EXCEPT !.lastFailureTime = t, !.count = v.count + 1]

updateBackoff(v) ==
    [v EXCEPT !.resetTimeout = NextInterval(v.attempts),
              !.attempts = Advance(v.attempts)]

V1Trip(v, t) == recordFailure([v EXCEPT !.hardTrip = TRUE], t)

V1Reset(v) == recordSuccess(v)

\* state(): the breaker after the call and the state it returns; "panic" is
\* the dereference of a nil resetTimeout
V1state(v, t) ==
    IF ~ShouldTrip(v.count)
    THEN [cb |-> [v EXCEPT !.lastState = "Closed"], st |-> "Closed"]
    ELSE
      LET a == IF v.lastState = "Closed" THEN [v EXCEPT !.attempts = 0] ELSE v
          b == IF a.lastState # "Open" THEN updateBackoff(a) ELSE a
      IN IF b.lastFailureTime # NoTime /\ b.resetTimeout = NoTime
         THEN [cb |-> b, st |-> "panic"]
         ELSE IF b.lastFailureTime # NoTime /\ t - b.lastFailureTime >= b.resetTimeout
         THEN [cb |-> [b EXCEPT !.lastState = "HalfClosed"], st |-> "HalfClosed"]
         ELSE [cb |-> [b EXCEPT !.lastState = "Open"], st |-> "Open"]

\* shouldTry(): state() is evaluated once per comparison that is reached
V1shouldTry(v, t, p, r) ==
    IF v.hardTrip THEN [cb |-> v, ret |-> FALSE, panic |-> FALSE]
    ELSE
      LET s1 == V1state(v, t)
          s2 == V1state(s1.cb, t)
      IN IF s1.st = "panic" THEN [cb |-> s1.cb, ret |-> FALSE, panic |-> TRUE]
         ELSE IF s1.st = "Open" THEN [cb |-> s1.cb, ret |-> FALSE, panic |-> FALSE]
         ELSE IF s2.st = "panic" THEN [cb |-> s2.cb, ret |-> FALSE, panic |-> TRUE]
         ELSE IF s2.st = "HalfClosed"
              THEN [cb |-> s2.cb, ret |-> r <= p, panic |-> FALSE]
              ELSE [cb |-> s2.cb, ret |-> TRUE, panic |-> FALSE]

\* Call after callWithTimeout returned e
V1CallFinish(v, t, i, e) ==
    IF e # NilErr /\ InterpShouldTrip(i, e)
    THEN [cb |-> recordFailure(v, t), ret |-> e]
    ELSE [cb |-> V1Reset(v), ret |-> NilErr]

(* ----------------------------- Call ------------------------------------ *)
\* Call that records a denied admission as a failed call
CallAdmissionMarksDenied(b, t, p, r) ==
    LET s == ShouldTry(b, t, p, r)
        m == MarkResult(s.cb, t, "any", ErrCircuitOpen)
    IN IF ~s.ret
       THEN [cb |-> m.cb, admitted |-> FALSE, ret |-> ErrCircuitOpen,
             fx |-> s.fx \cup m.fx]
       ELSE [cb |-> s.cb, admitted |-> TRUE, ret |-> NilErr, fx |-> s.fx \cup {"f"}]

\* Call up to its first return: the admission decision
CallAdmission(b, t, p, r) ==
    LET s == ShouldTry(b, t, p, r)
    IN IF ~s.ret
       THEN [cb |-> s.cb, admitted |-> FALSE, ret |-> ErrCircuitOpen, fx |-> s.fx]
       ELSE [cb |-> s.cb, admitted |-> TRUE, ret |-> NilErr, fx |-> s.fx \cup {"f"}]

\* what callWithTimeout's select can return: f's result e when f has finished,
\* the timeout sentinel when the timer has fired
callWithTimeout(to, finished, e, elapsed) ==
    (IF finished THEN {e} ELSE {})
    \cup (IF to # 0 /\ elapsed >= to THEN {ErrInvocationTimeout} ELSE {})

\* Call after callWithTimeout returned e: MarkResult, then "return err"
CallFinish(b, t, i, e) ==
    LET m == MarkResult(b, t, i, e)
    IN [cb |-> m.cb, marked |-> m.ret, ret |-> e, fx |-> m.fx]

(* ---------------------------- actions ---------------------------------- *)
MaxCount == Threshold + 1   \* Failure() is not modelled beyond this count

Apply(b) ==
    /\ state' = b.state
    /\ lastFailureTime' = b.lastFailureTime
    /\ resetTimeout' = b.resetTimeout
    /\ attempts' = b.attempts
    /\ count' = b.count

Init ==
    /\ state = "Closed"
    /\ lastFailureTime = NoTime
    /\ resetTimeout = NoTime
    /\ attempts = 0
    /\ count = 0
    /\ now = 0
    /\ \E cfg \in Configs :
         /\ prob = cfg[1]
         /\ invocationTimeout = cfg[2]
         /\ interp = cfg[3]
    /\ pc = [c \in Callers |-> "idle"]
    /\ err = [c \in Callers |-> NilErr]
    /\ start = [c \in Callers |-> 0]
    /\ detached = 0
    /\ run = 0
    /\ lastOp = Op("new", 0, TRUE, NilErr, {})
    /\ v1 = NewCircuitBreaker
    /\ v1pc = "idle"
    /\ v1err = NilErr
    /\ v1start = 0
    /\ v1detached = 0
    /\ v1blocked = FALSE
    /\ probe = [c \in Callers |-> FALSE]
    /\ mutex = 0
    /\ tpc = [t \in Goroutines |-> "idle"]
    /\ frames = [t \in Goroutines |-> <<>>]

Tick ==
    /\ now < MaxTime
    /\ now' = now + 1
    /\ lastOp' = Op("Tick", 0, TRUE, NilErr, {})
    /\ UNCHANGED <<bvars, cfgvars, callvars, run, v1vars, lvars>>

DoTrip ==
    LET r == Trip(cb)
    IN /\ Apply(r.cb)
       /\ lastOp' = Op("Trip", 0, r.ret, NilErr, r.fx)
       /\ UNCHANGED <<now, cfgvars, callvars, run, v1vars, lvars>>

DoReset ==
    LET r == Reset(cb)
    IN /\ Apply(r.cb)
       /\ run' = 0
       /\ lastOp' = Op("Reset", 0, r.ret, NilErr, r.fx)
       /\ UNCHANGED <<now, cfgvars, callvars, v1vars, lvars>>

DoShouldTry ==
    \E r \in RandDraws :
        LET s == ShouldTry(cb, now, prob, r)
        IN /\ Apply(s.cb)
           /\ lastOp' = Op("ShouldTry", 0, s.ret, NilErr, s.fx)
           /\ UNCHANGED <<now, cfgvars, callvars, run, v1vars, lvars>>

DoMarkResult ==
    \E e \in MarkInputs :
        LET m == MarkResult(cb, now, interp, e)
        IN /\ m.cb.count <= MaxCount
           /\ Apply(m.cb)
           /\ run' = IF m.ret THEN 0 ELSE run + 1
           /\ lastOp' = Op("MarkResult", 0, m.ret, e, m.fx)
           /\ UNCHANGED <<now, cfgvars, callvars, v1vars, lvars>>

CallShouldTry(c) ==
    /\ pc[c] = "idle"
    /\ \E r \in RandDraws :
        LET a == CallAdmission(cb, now, prob, r)
        IN /\ Apply(a.cb)
           /\ pc' = [pc EXCEPT ![c] = IF a.admitted THEN "running" ELSE "idle"]
           /\ start' = [start EXCEPT ![c] = IF a.admitted THEN now ELSE 0]
           /\ lastOp' = Op("Call.ShouldTry", c, a.admitted, a.ret, a.fx)
           /\ probe' = [probe EXCEPT ![c] = a.admitted /\ a.cb.state = "HalfClosed"]
           /\ UNCHANGED <<now, cfgvars, err, detached, run, v1vars, lvars>>

\* f returns e and the select receives it
CallFReturns(c) ==
    /\ pc[c] = "running"
    /\ \E e \in FuncResults :
        /\ e \in callWithTimeout(invocationTimeout, TRUE, e, now - start[c])
        /\ err' = [err EXCEPT ![c] = e]
        /\ lastOp' = Op("Call.f", c, TRUE, e, {})
    /\ pc' = [pc EXCEPT ![c] = "mark"]
    /\ start' = [start EXCEPT ![c] = 0]
    /\ UNCHANGED <<bvars, now, cfgvars, detached, probe, run, v1vars, lvars>>

\* the timer fires first; f keeps running, detached from the call
CallTimeout(c) ==
    /\ pc[c] = "running"
    /\ detached < MaxDetached
    /\ ErrInvocationTimeout
         \in callWithTimeout(invocationTimeout, FALSE, NilErr, now - start[c])
    /\ err' = [err EXCEPT ![c] = ErrInvocationTimeout]
    /\ pc' = [pc EXCEPT ![c] = "mark"]
    /\ start' = [start EXCEPT ![c] = 0]
    /\ detached' = detached + 1
    /\ lastOp' = Op("Call.timeout", c, FALSE, ErrInvocationTimeout, {})
    /\ UNCHANGED <<bvars, now, cfgvars, probe, run, v1vars, lvars>>

\* a detached f whose late result is recorded as a success after all
LateReturnMarks ==
    /\ detached > 0
    /\ detached' = detached - 1
    /\ Apply(Reset(cb).cb)
    /\ run' = 0
    /\ lastOp' = Op("f.late", 0, TRUE, NilErr, {})
    /\ UNCHANGED <<now, cfgvars, pc, err, start, probe, v1vars, lvars>>

\* a detached f returns; nothing reads its result
LateReturn ==
    /\ detached > 0
    /\ detached' = detached - 1
    /\ lastOp' = Op("f.late", 0, TRUE, NilErr, {})
    /\ UNCHANGED <<bvars, now, cfgvars, pc, err, start, probe, run, v1vars, lvars>>

CallMarkResult(c) ==
    /\ pc[c] = "mark"
    /\ LET k == CallFinish(cb, now, interp, err[c])
       IN /\ k.cb.count <= MaxCount
          /\ Apply(k.cb)
          /\ run' = IF k.marked THEN 0 ELSE run + 1
          /\ lastOp' = Op("Call.MarkResult", c, k.marked, k.ret, k.fx)
    /\ pc' = [pc EXCEPT ![c] = "idle"]
    /\ err' = [err EXCEPT ![c] = NilErr]
    /\ probe' = [probe EXCEPT ![c] = FALSE]
    /\ UNCHANGED <<now, cfgvars, start, detached, v1vars, lvars>>

Next ==
    \/ Tick
    \/ DoTrip
    \/ DoReset
    \/ DoShouldTry
    \/ DoMarkResult
    \/ \E c \in Callers : CallShouldTry(c)
    \/ \E c \in Callers : CallFReturns(c)
    \/ \E c \in Callers : CallTimeout(c)
    \/ \E c \in Callers : CallMarkResult(c)
    \/ LateReturn

Spec == Init /\ [][Next]_vars

(* ----------------------- actions of breaker.go ------------------------- *)
\* CircuitBreaker has no lock: it is used by one goroutine, one method at a time
V1DoTrip ==
    /\ v1pc = "idle"
    /\ v1.count < MaxCount
    /\ v1' = V1Trip(v1, now)
    /\ lastOp' = Op("V1.Trip", 0, TRUE, NilErr, {})
    /\ UNCHANGED <<v1pc, v1err, v1start, v1detached, v1blocked, nvars, lvars>>

V1DoReset ==
    /\ v1pc = "idle"
    /\ v1' = V1Reset(v1)
    /\ lastOp' = Op("V1.Reset", 0, TRUE, NilErr, {})
    /\ UNCHANGED <<v1pc, v1err, v1start, v1detached, v1blocked, nvars, lvars>>

V1CallShouldTry ==
    /\ v1pc = "idle"
    /\ \E r \in RandDraws :
        LET s == V1shouldTry(v1, now, prob, r)
        IN /\ v1' = s.cb
           /\ v1pc' = IF s.panic THEN "panic" ELSE IF s.ret THEN "running" ELSE "idle"
           /\ v1start' = IF s.ret THEN now ELSE 0
           /\ lastOp' = Op("V1.Call.shouldTry", 0, s.ret,
                           IF s.ret THEN NilErr ELSE ErrCircuitOpen, {})
    /\ v1err' = NilErr
    /\ UNCHANGED <<v1detached, v1blocked, nvars, lvars>>

V1CallFReturns ==
    /\ v1pc = "running"
    /\ \E e \in FuncResults :
        /\ e \in callWithTimeout(invocationTimeout, TRUE, e, now - v1start)
        /\ v1err' = e
        /\ lastOp' = Op("V1.Call.f", 0, TRUE, e, {})
    /\ v1pc' = "got"
    /\ v1start' = 0
    /\ UNCHANGED <<v1, v1detached, v1blocked, nvars, lvars>>

V1CallTimeout ==
    /\ v1pc = "running"
    /\ v1detached < MaxDetached
    /\ ErrInvocationTimeout
         \in callWithTimeout(invocationTimeout, FALSE, NilErr, now - v1start)
    /\ v1err' = ErrInvocationTimeout
    /\ v1pc' = "got"
    /\ v1start' = 0
    /\ v1detached' = v1detached + 1
    /\ lastOp' = Op("V1.Call.timeout", 0, FALSE, ErrInvocationTimeout, {})
    /\ UNCHANGED <<v1, v1blocked, nvars, lvars>>

\* f returns in a goroutine whose channel nobody receives from any more
V1LateReturn ==
    /\ v1detached > 0
    /\ v1detached' = v1detached - 1
    /\ v1blocked' = TRUE
    /\ lastOp' = Op("V1.f.late", 0, TRUE, NilErr, {})
    /\ UNCHANGED <<v1, v1pc, v1err, v1start, nvars, lvars>>

V1CallReturn ==
    /\ v1pc = "got"
    /\ LET k == V1CallFinish(v1, now, interp, v1err)
       IN /\ k.cb.count <= MaxCount
          /\ v1' = k.cb
          /\ lastOp' = Op("V1.Call.return", 0, k.ret = NilErr, k.ret, {})
    /\ v1pc' = "idle"
    /\ UNCHANGED <<v1err, v1start, v1detached, v1blocked, nvars, lvars>>

NextV1 ==
    \/ Tick
    \/ V1DoTrip
    \/ V1DoReset
    \/ V1CallShouldTry
    \/ V1CallFReturns
    \/ V1CallTimeout
    \/ V1LateReturn
    \/ V1CallReturn

SpecV1 == Init /\ [][NextV1]_vars

(* ---------------- recovery probing with a running clock ---------------- *)
\* The clock runs on after the last time a result is marked for as long as
\* the longest interval the backoff generator produces.
ProbeHorizon == MaxTime + NextInterval(MaxAttempts)

ProbeTick ==
    /\ now < ProbeHorizon
    /\ now' = now + 1
    /\ lastOp' = Op("Tick", 0, TRUE, NilErr, {})
    /\ UNCHANGED <<bvars, cfgvars, callvars, run, v1vars, lvars>>

\* results are marked up to MaxTime
ProbeMarkResult ==
    /\ now <= MaxTime
    /\ DoMarkResult

NextProbe ==
    \/ ProbeTick
    \/ ProbeMarkResult
    \/ DoShouldTry

\* callers of ShouldTry and MarkResult only: invocationTimeout plays no part
InitProbe == Init /\ invocationTimeout = 0

SpecProbe == InitProbe /\ [][NextProbe]_vars

\* The clock keeps advancing, callers keep calling ShouldTry(), and a draw
\* against a retry probability above 0 that is made again and again comes out
\* below it at some point.
FairSpecProbe ==
    /\ SpecProbe
    /\ WF_vars(ProbeTick)
    /\ WF_vars(DoShouldTry)
    /\ SF_vars(DoShouldTry /\ lastOp'.b)

(* ------------- circuitBreaker at the level of its mutex ---------------- *)
\* The program points of a goroutine inside the breaker:
\*   "test"  MarkResult's condition on err, evaluated before any locking
\*   "lock"  blocked in cb.mutex.Lock()
\*   "body"  between Lock() and the deferred Unlock(): every access to state,
\*           lastFailureTime, resetTimeout, the trip condition and the backoff
\*   "f"     inside callWithTimeout
Methods == {"Trip", "Reset", "ShouldTry", "MarkResult"}

\* Entry with Trip forgetting to take the lock
EntryTripUnlocked(m) ==
    IF m = "MarkResult" THEN "test" ELSE IF m = "Trip" THEN "body" ELSE "lock"

\* where a method starts: Trip, Reset and ShouldTry lock first
Entry(m) == IF m = "MarkResult" THEN "test" ELSE "lock"

\* UnlocksOnReturn with Trip lacking its deferred Unlock
UnlocksOnReturnExceptTrip(m) == m # "Trip"

\* every method that locks defers the Unlock
UnlocksOnReturn(m) == TRUE

Top(t) == frames[t][Len(frames[t])]
Pop(s) == SubSeq(s, 1, Len(s) - 1)

\* the frames left when the method on top returns: a Reset called by
\* MarkResult takes MarkResult with it ("cb.Reset(); return true")
AfterReturn(s) ==
    LET s1 == Pop(s)
    IN IF s[Len(s)] = "Reset" /\ s1 # <<>> /\ s1[Len(s1)] = "MarkResult"
       THEN Pop(s1) ELSE s1

\* a goroutine calls Trip, Reset, ShouldTry, MarkResult or Call
LBegin(t) ==
    /\ frames[t] = <<>>
    /\ \E m \in Methods \cup {"Call"} :
         IF m = "Call"
         THEN /\ frames' = [frames EXCEPT ![t] = <<"Call", "ShouldTry">>]
              /\ tpc' = [tpc EXCEPT ![t] = Entry("ShouldTry")]
         ELSE /\ frames' = [frames EXCEPT ![t] = <<m>>]
              /\ tpc' = [tpc EXCEPT ![t] = Entry(m)]
    /\ UNCHANGED <<mutex, nvars, lastOp, v1vars>>

\* f, running on the caller's goroutine (no timeout), calls the breaker
LCallback(t) ==
    /\ tpc[t] = "f"
    /\ invocationTimeout = 0
    /\ \E m \in Methods :
         /\ frames' = [frames EXCEPT ![t] = Append(frames[t], m)]
         /\ tpc' = [tpc EXCEPT ![t] = Entry(m)]
    /\ UNCHANGED <<mutex, nvars, lastOp, v1vars>>

\* MarkResult's condition: the failure branch locks, the other calls Reset
LTest(t) ==
    /\ tpc[t] = "test"
    /\ \E failure \in BOOLEAN :
         IF failure
         THEN /\ tpc' = [tpc EXCEPT ![t] = "lock"]
              /\ UNCHANGED frames
         ELSE /\ frames' = [frames EXCEPT ![t] = Append(frames[t], "Reset")]
              /\ tpc' = [tpc EXCEPT ![t] = Entry("Reset")]
    /\ UNCHANGED <<mutex, nvars, lastOp, v1vars>>

\* cb.mutex.Lock() succeeds: sync.Mutex is not reentrant
LLock(t) ==
    /\ tpc[t] = "lock"
    /\ mutex = 0
    /\ mutex' = t
    /\ tpc' = [tpc EXCEPT ![t] = "body"]
    /\ UNCHANGED <<frames, nvars, lastOp, v1vars>>

\* the method's accesses, its return and the deferred Unlock; Call goes on
\* to callWithTimeout when ShouldTry admitted it and returns after MarkResult
LBody(t) ==
    /\ tpc[t] = "body"
    /\ mutex' = IF UnlocksOnReturn(Top(t)) THEN 0 ELSE mutex
    /\ LET m == Top(t)
           s == AfterReturn(frames[t])
       IN IF s = <<>>
          THEN /\ frames' = [frames EXCEPT ![t] = <<>>]
               /\ tpc' = [tpc EXCEPT ![t] = "idle"]
          ELSE IF s[Len(s)] = "f"
          THEN /\ frames' = [frames EXCEPT ![t] = s]
               /\ tpc' = [tpc EXCEPT ![t] = "f"]
          ELSE IF m = "ShouldTry"
          THEN \E admitted \in BOOLEAN :
                 IF admitted
                 THEN /\ frames' = [frames EXCEPT ![t] = <<"Call", "f">>]
                      /\ tpc' = [tpc EXCEPT ![t] = "f"]
                 ELSE /\ frames' = [frames EXCEPT ![t] = <<>>]
                      /\ tpc' = [tpc EXCEPT ![t] = "idle"]
          ELSE /\ frames' = [frames EXCEPT ![t] = <<>>]
               /\ tpc' = [tpc EXCEPT ![t] = "idle"]
    /\ UNCHANGED <<nvars, lastOp, v1vars>>

\* callWithTimeout returns f's result; Call goes on to MarkResult
LFReturns(t) ==
    /\ tpc[t] = "f"
    /\ Top(t) = "f"
    /\ frames' = [frames EXCEPT ![t] = <<"Call", "MarkResult">>]
    /\ tpc' = [tpc EXCEPT ![t] = Entry("MarkResult")]
    /\ UNCHANGED <<mutex, nvars, lastOp, v1vars>>

\* the timer of callWithTimeout fires while f, on its own goroutine, has not
\* returned; Call goes on to MarkResult
LTimeout(t) ==
    /\ tpc[t] = "f"
    /\ invocationTimeout # 0
    /\ frames' = [frames EXCEPT ![t] = <<"Call", "MarkResult">>]
    /\ tpc' = [tpc EXCEPT ![t] = Entry("MarkResult")]
    /\ UNCHANGED <<mutex, nvars, lastOp, v1vars>>

DoLBegin == \E t \in Goroutines : LBegin(t)
DoLCallback == \E t \in Goroutines : LCallback(t)
DoLTest == \E t \in Goroutines : LTest(t)
DoLLock == \E t \in Goroutines : LLock(t)
DoLBody == \E t \in Goroutines : LBody(t)
DoLFReturns == \E t \in Goroutines : LFReturns(t)
DoLTimeout == \E t \in Goroutines : LTimeout(t)

NextLock ==
    \/ DoLBegin
    \/ DoLCallback
    \/ DoLTest
    \/ DoLLock
    \/ DoLBody
    \/ DoLFReturns
    \/ DoLTimeout

\* the lock-level view needs the two kinds of invocationTimeout only: it
\* leaves admission open, whatever the retry probability
InitLock == Init /\ prob = 50

SpecLock == InitLock /\ [][NextLock]_vars

\* Every step of a goroutine that is enabled for good is taken; a goroutine
\* blocked in Lock() gets the mutex if it is free again and again (sync.Mutex
\* hands the lock to a waiter that has been starved).  f need not return.
FairSpecLock ==
    /\ SpecLock
    /\ \A t \in Goroutines :
         /\ WF_vars(LTest(t))
         /\ WF_vars(LBody(t))
         /\ WF_vars(LTimeout(t))
         /\ SF_vars(LLock(t))

(* ------------------------ vocabulary of the claims --------------------- *)
ShouldTryOps == {"ShouldTry", "Call.ShouldTry"}
MarkResultOps == {"MarkResult", "Call.MarkResult"}

\* the interval in force has elapsed since the last recorded failure
IntervalElapsed(lft, rt, t) == lft # NoTime /\ rt # NoTime /\ t - lft >= rt

(* ------------------------------- C1 ------------------------------------ *)
\* C1: once Trip() was called the state is HardOpen and stays HardOpen through
\* every operation but Reset(), every ShouldTry() returns false and every Call
\* returns the circuit-open error without invoking f; and HardOpen is entered
\* by Trip() only.
C1_HardOpenUntilReset ==
    [][ /\ (lastOp'.op = "Trip" => state' = "HardOpen")
        /\ (state = "HardOpen" /\ lastOp'.op # "Reset" => state' = "HardOpen")
        /\ (state = "HardOpen" /\ lastOp'.op \in ShouldTryOps => ~lastOp'.b)
        /\ (state = "HardOpen" /\ lastOp'.op = "Call.ShouldTry"
               => lastOp'.e = ErrCircuitOpen /\ "f" \notin lastOp'.fx)
        /\ (state # "HardOpen" /\ state' = "HardOpen" => lastOp'.op = "Trip")
      ]_vars

(* ------------------------------- C2 ------------------------------------ *)
\* C2 as stated: lastFailureTime and resetTimeout are both unset or both set.
C2_BothOrNeither ==
    (lastFailureTime = NoTime) <=> (resetTimeout = NoTime)

\* C2 amended: resetTimeout is never set while lastFailureTime is unset
\* (lastFailureTime alone may be set).
C2_TimeoutImpliesFailureTime ==
    resetTimeout # NoTime => lastFailureTime # NoTime

C2_Witness ==
    /\ resetTimeout # NoTime
    /\ lastFailureTime # NoTime
    /\ lastOp.op \in ShouldTryOps
    /\ "NextInterval" \in lastOp.fx

(* ------------------------------- C3 ------------------------------------ *)
\* C3: Reset(), and MarkResult(nil) which returns true, leave the breaker
\* with state Closed, lastFailureTime unset, resetTimeout unset, the backoff
\* generator at its base and the trip condition told of one success.
C3_ResetClearsEverything ==
    (lastOp.op = "Reset" \/ (lastOp.op \in MarkResultOps /\ lastOp.e = NilErr))
        => /\ lastOp.b
           /\ state = "Closed"
           /\ lastFailureTime = NoTime
           /\ resetTimeout = NoTime
           /\ attempts = 0
           /\ NextInterval(attempts) = BackoffBase
           /\ "Success" \in lastOp.fx
           /\ count = 0

(* ------------------------------- C4 ------------------------------------ *)
\* C4: a ShouldTry() that returns true while the trip condition reports
\* tripped finds a full resetTimeout elapsed since lastFailureTime; while it
\* has not elapsed, ShouldTry() returns false and Call returns the
\* circuit-open error without invoking f.
C4_NoProbeBeforeInterval ==
    (lastOp.op \in ShouldTryOps /\ ShouldTrip(count)) =>
        /\ lastOp.b => IntervalElapsed(lastFailureTime, resetTimeout, now)
        /\ ~IntervalElapsed(lastFailureTime, resetTimeout, now) =>
              /\ ~lastOp.b
              /\ lastOp.op = "Call.ShouldTry" =>
                    /\ lastOp.e = ErrCircuitOpen
                    /\ "f" \notin lastOp.fx
                    /\ pc[lastOp.c] = "idle"

C4_Witness ==
    /\ lastOp.op = "Call.ShouldTry"
    /\ ShouldTrip(count)
    /\ lastOp.b
    /\ state = "HalfClosed"
    /\ now - lastFailureTime >= resetTimeout

(* ------------------------------- C5 ------------------------------------ *)
\* C5: once the breaker has tripped and the backoff interval has elapsed
\* since the last recorded failure, ShouldTry() returns false with retry
\* probability 0 and true with retry probability 1.  The interval is taken
\* as elapsed when both the interval in force before the call and the one in
\* force after it have elapsed.
C5_ProbeDecidedByProbability ==
    [][ ( /\ lastOp'.op \in ShouldTryOps
          /\ state \in {"Open", "HalfClosed"}
          /\ ShouldTrip(count)
          /\ IntervalElapsed(lastFailureTime, resetTimeout, now)
          /\ IntervalElapsed(lastFailureTime', resetTimeout', now') )
        => /\ (prob = 0 => ~lastOp'.b)
           /\ (prob = 100 => lastOp'.b)
      ]_vars

(* ------------------------------- C6 ------------------------------------ *)
\* C6: with the consecutive-failure trip condition of threshold N, after
\* fewer than N failures in a row followed by a success the counter is
\* cleared and the breaker allows calls (ShouldTry true, state Closed); after
\* N failures in a row a Call made before the backoff interval has elapsed
\* returns the circuit-open error and does not invoke f.
C6_ThresholdBehaviour ==
    /\ (lastOp.op \in MarkResultOps /\ lastOp.b) => (count = 0 /\ state = "Closed")
    /\ (lastOp.op \in ShouldTryOps /\ run < Threshold /\ state # "HardOpen")
          => (lastOp.b /\ state = "Closed")
    /\ ( /\ lastOp.op = "Call.ShouldTry"
         /\ run >= Threshold
         /\ ~IntervalElapsed(lastFailureTime, resetTimeout, now) )
          => /\ ~lastOp.b
             /\ lastOp.e = ErrCircuitOpen
             /\ "f" \notin lastOp.fx
             /\ pc[lastOp.c] = "idle"

C6_Witness ==
    /\ lastOp.op = "Call.ShouldTry"
    /\ run = Threshold
    /\ state = "Open"
    /\ lastOp.e = ErrCircuitOpen
    /\ now - lastFailureTime < resetTimeout

(* ------------------------------- C7 ------------------------------------ *)
\* C7: MarkResult(err) returns false exactly when err is the timeout sentinel
\* or the failure interpreter calls it trip-worthy; it then sends one
\* Failure(), sets lastFailureTime to now and leaves state, resetTimeout and
\* the backoff generator alone.  For every other err it returns true and
\* resets: state Closed, backoff at base, Success() sent.
C7_MarkResultOutcome ==
    [][ lastOp'.op \in MarkResultOps =>
          LET e == lastOp'.e
              tripWorthy == \/ e = ErrInvocationTimeout
                            \/ (e # NilErr /\ InterpShouldTrip(interp, e))
          IN /\ ~lastOp'.b <=> tripWorthy
             /\ tripWorthy =>
                   /\ "Failure" \in lastOp'.fx
                   /\ "Success" \notin lastOp'.fx
                   /\ count' = count + 1
                   /\ lastFailureTime' = now
                   /\ state' = state
                   /\ resetTimeout' = resetTimeout
                   /\ attempts' = attempts
                   /\ "Backoff.Reset" \notin lastOp'.fx
             /\ ~tripWorthy =>
                   /\ state' = "Closed"
                   /\ attempts' = 0
                   /\ {"Success", "Backoff.Reset"} \subseteq lastOp'.fx
                   /\ "Failure" \notin lastOp'.fx
                   /\ count' = 0
      ]_vars

C7_Witness ==
    /\ lastOp.op = "Call.MarkResult"
    /\ interp = "server"
    /\ lastOp.e = "e400"
    /\ lastOp.b
    /\ state = "Closed"
    /\ lastFailureTime # NoTime

(* ------------------------------- C8 ------------------------------------ *)
\* C8: a Call whose function outlasts a nonzero invocationTimeout returns the
\* timeout sentinel and is recorded as a failure (Failure() sent,
\* lastFailureTime set) whatever the failure interpreter says; N timeouts in
\* a row leave a threshold-N trip condition tripped.
C8_TimeoutIsFailure ==
    /\ [](lastOp.op = "Call.timeout" =>
            /\ invocationTimeout # 0
            /\ err[lastOp.c] = ErrInvocationTimeout
            /\ pc[lastOp.c] = "mark")
    /\ [][ (lastOp'.op = "Call.MarkResult" /\ err[lastOp'.c] = ErrInvocationTimeout)
            => /\ lastOp'.e = ErrInvocationTimeout
               /\ ~lastOp'.b
               /\ "Failure" \in lastOp'.fx
               /\ "Interp" \notin lastOp'.fx
               /\ lastFailureTime' = now
               /\ count' = count + 1
               /\ run' = run + 1
               /\ (run' >= Threshold => ShouldTrip(count'))
         ]_vars

C8_Witness ==
    /\ lastOp.op = "Call.MarkResult"
    /\ lastOp.e = ErrInvocationTimeout
    /\ interp = "server"
    /\ run = Threshold
    /\ ShouldTrip(count)
    /\ lastFailureTime = now

(* ------------------------------- C9 ------------------------------------ *)
\* C9: a Call that ShouldTry() denies returns the circuit-open sentinel,
\* does not invoke f or the failure interpreter, sends neither Success() nor
\* Failure(), and leaves lastFailureTime and the trip condition's counter
\* unchanged; the breaker is not reset.
C9_DeniedCallLeavesNoTrace ==
    [][ (lastOp'.op = "Call.ShouldTry" /\ ~lastOp'.b) =>
          /\ lastOp'.e = ErrCircuitOpen
          /\ lastOp'.fx \cap {"f", "Interp", "Success", "Failure"} = {}
          /\ pc'[lastOp'.c] = "idle"
          /\ lastFailureTime' = lastFailureTime
          /\ count' = count
          /\ run' = run
          /\ state' # "Closed"
      ]_vars

C9_Witness ==
    /\ lastOp.op = "Call.ShouldTry"
    /\ ~lastOp.b
    /\ lastOp.e = ErrCircuitOpen
    /\ state = "Open"
    /\ count = Threshold

(* ------------------------------- C10 ----------------------------------- *)
\* C10: when Call invoked f and f completed before the timeout, Call returns
\* exactly the error f returned.  For CircuitBreaker.Call of breaker.go:
C10_V1CallReturnsFResult ==
    (lastOp.op = "V1.Call.return" /\ v1err # ErrInvocationTimeout)
        => lastOp.e = v1err

\* and for circuitBreaker.Call:
C10_CallReturnsFResult ==
    [][ (lastOp'.op = "Call.MarkResult" /\ err[lastOp'.c] # ErrInvocationTimeout)
          => lastOp'.e = err[lastOp'.c] ]_vars

\* breaker.go never dereferences a nil resetTimeout
V1NoPanic == v1pc # "panic"

(* ------------------------------- C11 ----------------------------------- *)
\* C11: with any number of goroutines calling Trip, Reset, ShouldTry,
\* MarkResult and Call, a goroutine is at the accesses to state,
\* lastFailureTime, resetTimeout, the trip condition and the backoff generator
\* only while it holds the breaker's mutex, so no two goroutines are at them at
\* the same time.
C11_AccessesUnderMutex ==
    /\ \A t \in Goroutines : tpc[t] = "body" => mutex = t
    /\ \A t, u \in Goroutines : (tpc[t] = "body" /\ tpc[u] = "body") => t = u
    /\ mutex # 0 => tpc[mutex] = "body"

\* one goroutine is inside Reset called by MarkResult while another is
\* blocked in Lock()
C11_Witness ==
    \E t, u \in Goroutines :
        /\ t # u
        /\ tpc[t] = "body"
        /\ Len(frames[t]) >= 2
        /\ Top(t) = "Reset"
        /\ tpc[u] = "lock"
        /\ mutex = t

(* ------------------------------- C12 ----------------------------------- *)
\* C12: the mutex is not held by a goroutine while it runs f, and no
\* goroutine calls Lock() while holding the mutex; so every Trip, Reset,
\* ShouldTry and MarkResult in progress returns, and with a nonzero
\* invocationTimeout every Call returns, even if f never returns or f calls
\* back into the breaker.
C12_NoDeadlock ==
    /\ [](\A t \in Goroutines :
            /\ tpc[t] = "f" => mutex # t
            /\ tpc[t] = "lock" => mutex # t)
    /\ \A t \in Goroutines :
         /\ (tpc[t] \in {"test", "lock", "body"}) ~> (tpc[t] \in {"idle", "f"})
         /\ (frames[t] # <<>> /\ invocationTimeout # 0) ~> (frames[t] = <<>>)

\* f, called without a timeout, has called back into the breaker and waits
\* for the mutex another goroutine holds
C12_Witness ==
    \E t, u \in Goroutines :
        /\ t # u
        /\ Len(frames[t]) = 3
        /\ frames[t][2] = "f"
        /\ tpc[t] = "lock"
        /\ mutex = u

(* ------------------------------- C13 ----------------------------------- *)
\* C13: with invocationTimeout zero f runs synchronously, the timer never
\* fires and f's result is what callWithTimeout returns; otherwise f races the
\* timer, and when the timer wins the caller gets the timeout sentinel and
\* f's later result is dropped: it reaches no MarkResult and changes neither
\* state, lastFailureTime, resetTimeout nor the trip condition.  An admitted
\* Call goes through one callWithTimeout result and one MarkResult of it.
C13_LateResultDiscarded ==
    [][ LET c == lastOp'.c
        IN /\ lastOp'.op = "f.late" =>
                /\ UNCHANGED <<bvars, run, pc, err>>
                /\ lastOp'.fx = {}
           /\ lastOp'.op = "Call.f" =>
                /\ pc[c] = "running" /\ pc'[c] = "mark"
                /\ err'[c] = lastOp'.e
                /\ lastOp'.e \in FuncResults
                /\ UNCHANGED <<bvars, run>>
           /\ lastOp'.op = "Call.timeout" =>
                /\ invocationTimeout # 0
                /\ now - start[c] >= invocationTimeout
                /\ pc[c] = "running" /\ pc'[c] = "mark"
                /\ err'[c] = ErrInvocationTimeout
                /\ UNCHANGED <<bvars, run>>
           /\ lastOp'.op = "Call.MarkResult" =>
                /\ pc[c] = "mark" /\ pc'[c] = "idle"
                /\ lastOp'.e = err[c]
           /\ (lastOp'.op = "Call.ShouldTry" /\ lastOp'.b) =>
                /\ pc[c] = "idle" /\ pc'[c] = "running"
           /\ lastOp'.op \in {"MarkResult", "Trip", "Reset", "ShouldTry", "Tick"} =>
                UNCHANGED pc
      ]_vars

\* a detached f has returned after its Call recorded the timeout
C13_Witness ==
    /\ lastOp.op = "f.late"
    /\ invocationTimeout # 0
    /\ run > 0
    /\ lastFailureTime # NoTime
    /\ \A c \in Callers : pc[c] = "idle"

(* ------------------------------- C14 ----------------------------------- *)
\* C14: right after Reset(), from whatever state, the breaker is Closed with
\* the trip condition cleared and the backoff generator reset, so that the
\* next interval the generator produces is its base interval; a ShouldTry()
\* that comes next returns true.
C14_AfterReset ==
    /\ [](lastOp.op = "Reset" =>
            /\ state = "Closed"
            /\ ~ShouldTrip(count)
            /\ "Backoff.Reset" \in lastOp.fx
            /\ NextInterval(attempts) = BackoffBase)
    /\ [][ (lastOp.op = "Reset" /\ lastOp'.op \in ShouldTryOps)
            => /\ lastOp'.b
               /\ state' = "Closed"
               /\ NextInterval(attempts') = BackoffBase ]_vars

\* Reset() has just been called on a breaker that had recorded failures
C14_Witness ==
    /\ lastOp.op = "Reset"
    /\ lastFailureTime # NoTime
    /\ state = "Closed"
    /\ attempts = 0

(* ------------------------------- C15 ----------------------------------- *)
\* C15: a ShouldTry() that finds the trip condition tripped while the state
\* is Closed resets the backoff generator before it draws from it: the
\* resetTimeout of the first open period is the generator's base interval.
C15_FreshEpisodeStartsAtBase ==
    [][ ( /\ lastOp'.op \in ShouldTryOps
          /\ state = "Closed"
          /\ ShouldTrip(count) )
        => /\ {"Backoff.Reset", "NextInterval"} \subseteq lastOp'.fx
           /\ resetTimeout' = BackoffBase
           /\ attempts' = Advance(0)
           /\ state' = "Open"
           /\ ~lastOp'.b
      ]_vars

C15_Witness ==
    /\ lastOp.op \in ShouldTryOps
    /\ "Backoff.Reset" \in lastOp.fx
    /\ state = "Open"
    /\ resetTimeout = BackoffBase
    /\ run >= Threshold

(* ------------------------------- C16 ----------------------------------- *)
\* C16: when a trip-worthy failure or a timeout has just been recorded while
\* the breaker is HalfClosed, the next ShouldTry() moves the state to Open and
\* returns false; the new resetTimeout is the generator's next interval, the
\* generator is not reset, and the failure time the wait is measured from is
\* the time that failure was recorded.
C16_ProbeFailureReopens ==
    [][ ( /\ lastOp.op \in MarkResultOps
          /\ ~lastOp.b
          /\ state = "HalfClosed"
          /\ lastOp'.op \in ShouldTryOps )
        => /\ state' = "Open"
           /\ ~lastOp'.b
           /\ resetTimeout' = NextInterval(attempts)
           /\ resetTimeout' > BackoffBase
           /\ attempts' = Advance(attempts)
           /\ "Backoff.Reset" \notin lastOp'.fx
           /\ "NextInterval" \in lastOp'.fx
           /\ lastFailureTime = now
           /\ lastFailureTime' = lastFailureTime
      ]_vars

\* the breaker has reopened with a grown interval at the time of a failure
C16_Witness ==
    /\ lastOp.op \in ShouldTryOps
    /\ ~lastOp.b
    /\ state = "Open"
    /\ resetTimeout > BackoffBase
    /\ lastFailureTime = now
    /\ lastFailureTime >= BackoffBase

(* ------------------------------- C17 ----------------------------------- *)
\* C17: while the trip condition reports tripped and no failure, Trip() or
\* Reset() comes in between, ShouldTry() alone neither draws from the backoff
\* generator nor changes resetTimeout.
C17_ShouldTryAloneKeepsInterval ==
    [][ ( /\ lastOp.op \in ShouldTryOps
          /\ lastOp'.op \in ShouldTryOps
          /\ state \in {"Open", "HalfClosed"}
          /\ ShouldTrip(count) )
        => /\ resetTimeout' = resetTimeout
           /\ attempts' = attempts
           /\ "NextInterval" \notin lastOp'.fx
      ]_vars

(* ------------------------------- C18 ----------------------------------- *)
\* C18: when ShouldTry() has denied on a tripped breaker that is not HardOpen
\* and whose retry probability is above 0, then, the clock advancing and
\* callers calling ShouldTry() again and again, some ShouldTry() returns true
\* unless a further failure is recorded first; and a success marked by the
\* admitted caller leaves the state Closed.
C18_ProbeEventuallyAdmitted ==
    /\ ( /\ lastOp.op \in ShouldTryOps
         /\ ~lastOp.b
         /\ ShouldTrip(count)
         /\ state # "HardOpen"
         /\ prob > 0 )
       ~> ( \/ (lastOp.op \in ShouldTryOps /\ lastOp.b)
            \/ (lastOp.op \in MarkResultOps /\ ~lastOp.b) )
    /\ [][ ( /\ lastOp.op \in ShouldTryOps
             /\ lastOp.b
             /\ lastOp'.op \in MarkResultOps
             /\ lastOp'.b )
           => state' = "Closed" ]_vars

\* a probe has been admitted in HalfClosed after the generator was drawn
\* from more than once
C18_Witness ==
    /\ lastOp.op \in ShouldTryOps
    /\ lastOp.b
    /\ state = "HalfClosed"
    /\ resetTimeout > BackoffBase
    /\ now > MaxTime

(* ------------------------------- C19 ----------------------------------- *)
\* C19: once tripped to Open the breaker returns to Closed only through
\* Reset() or through the success of a call that was admitted as a half-open
\* probe (a success reported directly through MarkResult() counts as the
\* probe's); the result of a Call admitted before the trip does not close it.
C19_ClosedOnlyByResetOrProbe ==
    [][ (state \in {"Open", "HalfClosed"} /\ state' = "Closed")
        => \/ lastOp'.op \in {"Reset", "MarkResult"}
           \/ /\ lastOp'.op = "Call.MarkResult"
              /\ lastOp'.b
              /\ probe[lastOp'.c]
      ]_vars

(* ------------------------------- C20 ----------------------------------- *)
\* C20: in breaker.go's callWithTimeout with a nonzero timeout the goroutine
\* running f terminates once f returns, whoever won the race: no goroutine
\* stays blocked on the result channel.
C20_NoGoroutineLeftBlocked == ~v1blocked

====
